---- MODULE Spec2Model ----
(***************************************************************************)
(* Model of server.js: the SQLite tables (users, tournaments,              *)
(* tournament_players, fixtures, standings), the session of the browser    *)
(* that sends the requests, and the route handlers.  SELECTs without ORDER *)
(* BY return rows in insertion (rowid) order.                              *)
(*                                                                         *)
(* Spec, SpecRaw, SpecTwo and SpecAccounts take a handler as one action:   *)
(* its statements take effect in the order the handler issues them, and    *)
(* it runs to completion (all the writes it queued included) before the    *)
(* next request starts.  SpecScores, SpecSteps and SpecPage take the       *)
(* score, generate and page handlers one statement at a time, the          *)
(* statements of requests under way interleaved in any order.              *)
(*                                                                         *)
(* The browser never posts to /login: its session is the one its last      *)
(* registration set.  It registers the names of NameOrder in order (any    *)
(* name, free or taken, in SpecAccounts) and its requests name tournaments *)
(* that exist.                                                             *)
(***************************************************************************)
EXTENDS Integers, Sequences, FiniteSets, TLC

\* ---------------------------------------------------------------- bounds
\* Largest number of rows of tournament_players per tournament.
MaxMemberRows == 3
\* Largest value of a standings row's played column before scoring stops.
MaxPlayed == 3
\* Largest number of requests taken statement by statement in a behaviour.
MaxStarted == 3

\* ---------------------------------------------------------------- inputs
\* The usernames the browser registers with; a name not yet taken is tried
\* in this order (the code never looks inside a name).
NameOrder == <<"A", "B", "C">>
Usernames == {NameOrder[i] : i \in DOMAIN NameOrder}
Emails == {"e"}
Passwords == {"p"}
\* The tournament ids the tables are modelled for, and the one id the
\* requests of Spec name (req.params.id).
TIDs == {1, 2}
OneTid == {1}
\* fixtureIndex values of the form (positions in a JavaScript array).
FixtureIndexes == {0, 1, 2}
\* Form fields are strings; a string is a tuple of one-character strings.
ValidScores == {<<"1">>, <<"3">>}
RawScores == {<<"1">>, <<"-", "1">>, <<"a">>}

\* ---------------------------------------------------------------- values
\* JavaScript NaN (parseInt of a string without leading digits), SQL NULL
\* (what a bound NaN is stored as) and a TEXT value kept in an INTEGER
\* column, encoded as integers outside the range of every counter.
NaN == -1000001
NULL == -1000002
TEXT == -1000003

DigitChars == {"0", "1", "2", "3", "4", "5", "6", "7", "8", "9"}

DigitVal(c) ==
    CASE c = "0" -> 0 [] c = "1" -> 1 [] c = "2" -> 2 [] c = "3" -> 3
      [] c = "4" -> 4 [] c = "5" -> 5 [] c = "6" -> 6 [] c = "7" -> 7
      [] c = "8" -> 8 [] c = "9" -> 9

RECURSIVE ParseDigits(_, _, _)
\* The value of the longest run of digits of s from position i on, or NaN
\* when there is none; acc[1] tells whether a digit was read so far and
\* acc[2] is the value of the digits read.
ParseDigits(s, i, acc) ==
    IF i <= Len(s) /\ s[i] \in DigitChars
    THEN ParseDigits(s, i + 1, <<TRUE, acc[2] * 10 + DigitVal(s[i])>>)
    ELSE IF acc[1] THEN acc[2] ELSE NaN

\* parseInt(string): optional sign, then the leading digits; what follows
\* them is ignored; NaN when no digit leads.
parseInt(s) ==
    IF Len(s) >= 1 /\ s[1] \in {"-", "+"}
    THEN LET n == ParseDigits(s, 2, <<FALSE, 0>>)
         IN  IF n = NaN THEN NaN ELSE IF s[1] = "-" THEN 0 - n ELSE n
    ELSE ParseDigits(s, 1, <<FALSE, 0>>)

\* The whole of s is an integer literal.
IsIntegerLiteral(s) ==
    LET body == IF Len(s) >= 1 /\ s[1] \in {"-", "+"} THEN Tail(s) ELSE s
    IN  Len(body) >= 1 /\ \A i \in 1..Len(body) : body[i] \in DigitChars

\* What an INTEGER column stores for a bound string: the integer when the
\* text is an integer literal, the text otherwise.
IntegerAffinity(s) == IF IsIntegerLiteral(s) THEN parseInt(s) ELSE TEXT

\* What SQLite stores for a bound JavaScript number: NaN is stored as NULL.
BindNumber(x) == IF x = NaN THEN NULL ELSE x

\* SQL a + b: NULL when an operand is NULL.
SqlAdd(a, b) == IF a = NULL \/ b = NULL THEN NULL ELSE a + b

\* JavaScript rowValue + n, rowValue read from the store (null counts as 0).
JsAdd(a, n) == IF n = NaN THEN NaN ELSE (IF a = NULL THEN 0 ELSE a) + n

\* JavaScript a - b.
JsSub(a, b) == IF a = NaN \/ b = NaN THEN NaN ELSE a - b

\* JavaScript a > b, a === b on numbers: false when an operand is NaN.
JsGt(a, b) == a # NaN /\ b # NaN /\ a > b
JsEq(a, b) == a # NaN /\ b # NaN /\ a = b

\* bcrypt.hash.
Hash(password) == <<"bcrypt", password>>

\* ---------------------------------------------------------------- state
VARIABLES
    users,               \* table users, in id order: row i has id i
    tournaments,         \* table tournaments, in id order
    tournament_players,  \* per tournament_id, the user_id of its rows in order
    fixtures,            \* per tournament_id, its rows of fixtures in order
    standings,           \* per tournament_id, its rows of standings in order
    session,             \* req.session.user: a user id, or 0 when absent
    last,                \* the last request handled and the response to it
    reqs,                \* per slot, the request whose statements are under way
    started,             \* how many requests were taken statement by statement
    page                 \* the last tournament page rendered

vars == <<users, tournaments, tournament_players, fixtures, standings,
          session, last, reqs, started, page>>

db == <<users, tournaments, tournament_players, fixtures, standings>>

\* What a handler that runs to completion leaves alone.
inflight == <<reqs, started, page>>

\* tid is the :id of the route, 0 for a route without one.
Response(op, tid, outcome) == [op |-> op, tid |-> tid, outcome |-> outcome]

\* The requests that can be under way at once.
Slots == {1, 2}

\* The locals of GET /tournament/:id that the template is rendered from;
\* tournament is the row read, if there is one.
EmptyView == [tid |-> 0, tournament |-> <<>>, players |-> <<>>,
              fixtures |-> <<>>, standings |-> <<>>]

\* A slot without a request.  Of a request under way: kind is its route, pc
\* the statement it waits for, f the fixture row its callback holds (live
\* while a row with f.id is in the table, at position pos of the
\* tournament's rows), home the row the first db.get returned, queue the
\* writes it issued that have not run yet, view what a page read so far.
Idle == [kind |-> "idle", pc |-> "idle", tid |-> 0,
         homeScore |-> <<>>, awayScore |-> <<>>,
         f |-> <<>>, pos |-> 0, live |-> FALSE, home |-> <<>>,
         queue |-> <<>>, view |-> EmptyView]

Init ==
    /\ users = <<>>
    /\ tournaments = <<>>
    /\ tournament_players = [t \in TIDs |-> <<>>]
    /\ fixtures = [t \in TIDs |-> <<>>]
    /\ standings = [t \in TIDs |-> <<>>]
    /\ session = 0
    /\ last = Response("none", 0, "none")
    /\ reqs = [s \in Slots |-> Idle]
    /\ started = 0
    /\ page = <<>>

\* ---------------------------------------------------------------- auth
\* function auth: the request goes on only with a session user.
auth == session # 0

\* What an authenticated route answers without a session.
AuthRedirect(op, tid) ==
    /\ ~auth
    /\ last' = Response(op, tid, "redirect:/login")
    /\ UNCHANGED <<db, session, inflight>>

\* ---------------------------------------------------------------- register
\* The INSERT as an INSERT OR REPLACE whose new row is logged in.
RegisterOrReplace(username, email, password) ==
    /\ users' = IF \E i \in 1..Len(users) : users[i].username = username
                THEN [i \in 1..Len(users) |->
                        IF users[i].username = username
                        THEN [users[i] EXCEPT !.email = email,
                                              !.password = Hash(password)]
                        ELSE users[i]]
                ELSE Append(users, [id |-> Len(users) + 1,
                                    username |-> username,
                                    email |-> email,
                                    password |-> Hash(password)])
    /\ session' = IF \E i \in 1..Len(users) : users[i].username = username
                  THEN CHOOSE i \in 1..Len(users) : users[i].username = username
                  ELSE Len(users) + 1
    /\ last' = Response("register", 0, "redirect:/dashboard")
    /\ UNCHANGED <<tournaments, tournament_players, fixtures, standings,
                   inflight>>

Register(username, email, password) ==
    IF \E i \in 1..Len(users) : users[i].username = username
    THEN \* UNIQUE(username) fails the INSERT
         /\ last' = Response("register", 0, "redirect:/register?error")
         /\ UNCHANGED <<db, session, inflight>>
    ELSE /\ users' = Append(users, [id |-> Len(users) + 1,
                                    username |-> username,
                                    email |-> email,
                                    password |-> Hash(password)])
         /\ session' = Len(users) + 1
         /\ last' = Response("register", 0, "redirect:/dashboard")
         /\ UNCHANGED <<tournaments, tournament_players, fixtures, standings,
                        inflight>>

\* ---------------------------------------------------------------- create
\* INSERT INTO tournament_players: the table has no key, a row is appended.
InsertPlayer(rows, uid) == Append(rows, uid)

Create(Tids) ==
    /\ auth
    /\ Len(tournaments) + 1 \in Tids
    /\ Len(tournament_players[Len(tournaments) + 1]) < MaxMemberRows
    /\ LET tid == Len(tournaments) + 1
       IN  /\ tournaments' = Append(tournaments,
                  [id |-> tid, createdBy |-> users[session].username])
           /\ tournament_players' =
                  [tournament_players EXCEPT ![tid] = InsertPlayer(@, session)]
           /\ last' = Response("create", tid, "redirect:/dashboard")
    /\ UNCHANGED <<users, fixtures, standings, session, inflight>>

\* ---------------------------------------------------------------- join
\* INSERT OR IGNORE INTO tournament_players: OR IGNORE skips a row that
\* violates a constraint; tournament_players declares none but its foreign
\* keys, so the row is appended whether or not an equal one is there.
InsertOrIgnorePlayer(rows, uid) == Append(rows, uid)

Join(tid) ==
    /\ auth
    /\ Len(tournament_players[tid]) < MaxMemberRows
    /\ tournament_players' =
           [tournament_players EXCEPT ![tid] = InsertOrIgnorePlayer(@, session)]
    /\ last' = Response("join", tid, "redirect:/tournament")
    /\ UNCHANGED <<users, tournaments, fixtures, standings, session, inflight>>

\* ---------------------------------------------------------------- generate
\* SELECT u.username FROM users u JOIN tournament_players tp ...: one
\* username per row of tournament_players of the tournament.
Players(tid) ==
    [i \in 1..Len(tournament_players[tid]) |->
        users[tournament_players[tid][i]].username]

RECURSIVE InnerLoop(_, _, _)
\* for (j = i + 1; j < players.length; j++): the two legs of i against j.
InnerLoop(players, i, j) ==
    IF j > Len(players) THEN <<>>
    ELSE <<[home |-> players[i], away |-> players[j]],
           [home |-> players[j], away |-> players[i]]>>
         \o InnerLoop(players, i, j + 1)

RECURSIVE OuterLoop(_, _)
\* for (i = 0; i < players.length; i++)
OuterLoop(players, i) ==
    IF i > Len(players) THEN <<>>
    ELSE InnerLoop(players, i, i + 1) \o OuterLoop(players, i + 1)

\* The loops with the two inserts of a pair exchanged.
FixturePairsAwayFirst(players) ==
    [k \in DOMAIN OuterLoop(players, 1) |->
        [home |-> OuterLoop(players, 1)[k].away,
         away |-> OuterLoop(players, 1)[k].home]]

\* The (home, away) pairs in the order the loops insert them.
FixturePairs(players) == OuterLoop(players, 1)

\* INSERT INTO fixtures (tournament_id, home, away): the other columns take
\* their defaults.  The id column is left out of the model: a row is known
\* by its tournament and its position among the tournament's rows, which
\* is the order of the ids AUTOINCREMENT hands out.
NewFixture(pair) ==
    [home |-> pair.home, away |-> pair.away,
     homeScore |-> 0, awayScore |-> 0, played |-> 0]

\* INSERT INTO standings (tournament_id, player): every counter defaults to 0.
NewStanding(player) ==
    [player |-> player, played |-> 0, won |-> 0, drawn |-> 0, lost |-> 0,
     gf |-> 0, ga |-> 0, gd |-> 0, points |-> 0]

\* The test with the bound off by one.
TooFewPlayersBelowOne(players) == Len(players) < 1

\* if (players.length < 2) return ...
TooFewPlayers(players) == Len(players) < 2

Generate(tid) ==
    /\ auth
    /\ LET players == Players(tid)
           pairs == FixturePairs(players)
       IN  IF TooFewPlayers(players)
           THEN /\ last' = Response("generate", tid, "redirect:/tournament")
                /\ UNCHANGED <<db, session, inflight>>
           ELSE /\ fixtures' = [fixtures EXCEPT ![tid] =
                       [k \in 1..Len(pairs) |-> NewFixture(pairs[k])]]
                /\ standings' = [standings EXCEPT ![tid] =
                       [k \in 1..Len(players) |-> NewStanding(players[k])]]
                /\ last' = Response("generate", tid, "redirect:/tournament")
                /\ UNCHANGED <<users, tournaments, tournament_players, session,
                               inflight>>

\* ---------------------------------------------------------------- score
\* The UPDATE with WHERE tournament_id = ? in place of WHERE id = ?.
UpdateEveryFixture(fx, k, homeScore, awayScore) ==
    [j \in DOMAIN fx |->
        [fx[j] EXCEPT !.homeScore = IntegerAffinity(homeScore),
                      !.awayScore = IntegerAffinity(awayScore),
                      !.played = 1]]

\* UPDATE fixtures SET homeScore = ?, awayScore = ?, played = 1 WHERE id = ?
\* with the form's strings bound as they came; fx are the rows of the
\* tournament and k the position of the row whose id is f.id.
UpdateFixture(fx, k, homeScore, awayScore) ==
    [fx EXCEPT ![k] = [@ EXCEPT !.homeScore = IntegerAffinity(homeScore),
                                !.awayScore = IntegerAffinity(awayScore),
                                !.played = 1]]

\* SELECT * FROM standings WHERE tournament_id = ? AND player = ? through
\* db.get: the rows that match; the callback gets the first, or undefined.
GetStanding(st, player) == SelectSeq(st, LAMBDA r : r.player = player)

\* updateStanding with the counters taken from the row as the store has it
\* when the UPDATE runs.
updateStandingFromStore(st, row, gf, ga) ==
    [k \in DOMAIN st |->
        IF st[k].player = row.player
        THEN LET won == st[k].won + (IF JsGt(gf, ga) THEN 1 ELSE 0)
                 drawn == st[k].drawn + (IF JsEq(gf, ga) THEN 1 ELSE 0)
             IN  [st[k] EXCEPT !.played = @ + 1, !.won = won,
                               !.drawn = drawn,
                               !.lost = @ + (IF JsGt(ga, gf) THEN 1 ELSE 0),
                               !.gf = SqlAdd(@, BindNumber(gf)),
                               !.ga = SqlAdd(@, BindNumber(ga)),
                               !.gd = BindNumber(JsSub(JsAdd(st[k].gf, gf),
                                                       JsAdd(st[k].ga, ga))),
                               !.points = won * 3 + drawn]
        ELSE st[k]]

\* function updateStanding(row, gf, ga), on the standings rows st of the
\* request's tournament: the new counters come from the row read earlier,
\* gf and ga are incremented in the store, and every row of that player in
\* the tournament is written.
updateStanding(st, row, gf, ga) ==
    LET played == row.played + 1
        won == row.won + (IF JsGt(gf, ga) THEN 1 ELSE 0)
        drawn == row.drawn + (IF JsEq(gf, ga) THEN 1 ELSE 0)
        lost == row.lost + (IF JsGt(ga, gf) THEN 1 ELSE 0)
        points == won * 3 + drawn
        gd == JsSub(JsAdd(row.gf, gf), JsAdd(row.ga, ga))
    IN  [k \in DOMAIN st |->
            IF st[k].player = row.player
            THEN [st[k] EXCEPT !.played = played, !.won = won,
                               !.drawn = drawn, !.lost = lost,
                               !.gf = SqlAdd(@, BindNumber(gf)),
                               !.ga = SqlAdd(@, BindNumber(ga)),
                               !.gd = BindNumber(gd), !.points = points]
            ELSE st[k]]

\* The two calls with a guard on the fixture's played flag before them.
ApplyResultUnlessPlayed(st, f, home, away, hs, as) ==
    IF f.played = 1 THEN st
    ELSE updateStanding(updateStanding(st, home, hs, as), away, as, hs)

\* updateStanding(home, hs, as); updateStanding(away, as, hs): both from the
\* rows read before either write; f is the fixture row read.
ApplyResult(st, f, home, away, hs, as) ==
    updateStanding(updateStanding(st, home, hs, as), away, as, hs)

Score(tid, fixtureIndex, homeScore, awayScore) ==
    /\ auth
    /\ UNCHANGED <<users, tournaments, tournament_players, session, inflight>>
    /\ IF fixtureIndex + 1 \notin DOMAIN fixtures[tid]
       THEN \* f is undefined: f.id throws
            /\ last' = Response("score", tid, "TypeError")
            /\ UNCHANGED <<fixtures, standings>>
       ELSE LET f == fixtures[tid][fixtureIndex + 1]
                home == GetStanding(standings[tid], f.home)
                away == GetStanding(standings[tid], f.away)
                hs == parseInt(homeScore)
                as == parseInt(awayScore)
            IN  /\ fixtures' = [fixtures EXCEPT ![tid] =
                       UpdateFixture(@, fixtureIndex + 1, homeScore, awayScore)]
                /\ IF home = <<>>
                   THEN \* row is undefined: row.played throws
                        /\ last' = Response("score", tid, "TypeError")
                        /\ UNCHANGED standings
                   ELSE /\ home[1].played < MaxPlayed
                        /\ IF away = <<>>
                           THEN /\ standings' = [standings EXCEPT ![tid] =
                                       updateStanding(@, home[1], hs, as)]
                                /\ last' = Response("score", tid, "TypeError")
                           ELSE /\ away[1].played < MaxPlayed
                                /\ standings' = [standings EXCEPT ![tid] =
                                       ApplyResult(@, f, home[1], away[1],
                                                   hs, as)]
                                /\ last' = Response("score", tid, "redirect:/tournament")

\* ---------------------------------------------------------------- system
\* A request to a route behind auth made without a session.
Unauthenticated(Tids) ==
    \/ AuthRedirect("create", 0)
    \/ \E op \in {"join", "generate", "score"}, tid \in Tids :
           AuthRedirect(op, tid)

\* The first username of NameOrder that is free, if there is one.
FreshNames ==
    {NameOrder[i] : i \in {j \in DOMAIN NameOrder : j = Len(users) + 1}}

\* The tournaments of Tids that exist: the browser follows the links of
\* its pages, which name rows of table tournaments.
Existing(Tids) == {tid \in Tids : tid <= Len(tournaments)}

\* POST /register under a free username.
RegisterRequest ==
    \E u \in FreshNames, e \in Emails, p \in Passwords : Register(u, e, p)

\* POST /tournament/join/:id for an existing tournament of Tids.
JoinRequest(Tids) == \E tid \in Existing(Tids) : Join(tid)

\* POST /tournament/generate/:id for an existing tournament of Tids.
GenerateRequest(Tids) == \E tid \in Existing(Tids) : Generate(tid)

\* POST /tournament/score/:id for an existing tournament of Tids, with a
\* fixtureIndex of Indexes and scores of Scores.
ScoreRequest(Tids, Indexes, Scores) ==
    \E tid \in Existing(Tids), k \in Indexes, hs \in Scores, as \in Scores :
        Score(tid, k, hs, as)

\* The requests of the browser.
Requests(Tids, Indexes, Scores) ==
    \/ RegisterRequest
    \/ Create(Tids)
    \/ JoinRequest(Tids)
    \/ GenerateRequest(Tids)
    \/ ScoreRequest(Tids, Indexes, Scores)
    \/ Unauthenticated(Tids)

\* Requests of a browser that registers under free usernames and sends
\* scores that are strings of digits.
Next == Requests(OneTid, FixtureIndexes, ValidScores)

Spec == Init /\ [][Next]_vars

\* Requests with any score string, for the first two fixtures.
NextRaw == Requests(OneTid, {0, 1}, RawScores)

SpecRaw == Init /\ [][NextRaw]_vars

\* ------------------------------------------------------- two tournaments
\* POST /tournament/join/:id by a user who is not in the tournament.
JoinOnce(Tids) ==
    \E tid \in Existing(Tids) :
        /\ \A i \in DOMAIN tournament_players[tid] :
               tournament_players[tid][i] # session
        /\ Join(tid)

\* The fixtureIndex values and the scores of the requests of SpecTwo and
\* of the requests taken statement by statement.
StepIndexes == {0, 2}
StepHomeScores == {<<"3">>}
StepAwayScores == {<<"1">>}

\* POST /tournament/score/:id for a fixture that is not marked played, or
\* with an index that addresses none.
ScoreUnplayed(Tids) ==
    \E tid \in Existing(Tids), k \in StepIndexes, hs \in StepHomeScores,
       as \in StepAwayScores :
        /\ k + 1 \in DOMAIN fixtures[tid] => fixtures[tid][k + 1].played = 0
        /\ Score(tid, k, hs, as)

\* Users in two tournaments: they join a tournament once and record a
\* fixture once.
NextTwo ==
    \/ RegisterRequest
    \/ Create(TIDs)
    \/ JoinOnce(TIDs)
    \/ GenerateRequest(TIDs)
    \/ ScoreUnplayed(TIDs)
    \/ Unauthenticated(TIDs)

SpecTwo == Init /\ [][NextTwo]_vars

\* ---------------------------------------------------------------- accounts
\* The e-mail addresses of the registrations of SpecAccounts.
AccountEmails == {"e", "f"}

\* POST /register under any username, free or taken.
RegisterAnyRequest ==
    \E u \in Usernames, e \in AccountEmails, p \in Passwords :
        Register(u, e, p)

\* The next requests come from a browser without a session cookie:
\* req.session.user is undefined for it.
FreshSession ==
    /\ session # 0
    /\ session' = 0
    /\ last' = Response("none", 0, "none")
    /\ UNCHANGED <<db, inflight>>

\* Registrations under any username from browsers with or without a
\* session, and the tournaments they create and join.
NextAccounts ==
    \/ RegisterAnyRequest
    \/ FreshSession
    \/ Create(OneTid)
    \/ JoinRequest(OneTid)
    \/ Unauthenticated(OneTid)

SpecAccounts == Init /\ [][NextAccounts]_vars

\* ------------------------------------------------------- statement steps
\* The same handlers taken one statement at a time: a step runs one
\* statement of one request together with the callback it was given, the
\* statements of one request run in the order the request issued them, and
\* the statements of different requests interleave in any order.

\* The lowest slot without a request.
FreeSlots ==
    {s \in Slots : /\ reqs[s].kind = "idle"
                   /\ \A t \in Slots : t < s => reqs[t].kind # "idle"}

\* db.all(SELECT * FROM fixtures ...) of the score handler and its callback
\* up to the issue of the UPDATE: f = fixtures[fixtureIndex], f.id read.
ScoreReadFixtures(s, tid, fixtureIndex, homeScore, awayScore) ==
    /\ auth
    /\ started < MaxStarted
    /\ started' = started + 1
    /\ IF fixtureIndex + 1 \notin DOMAIN fixtures[tid]
       THEN \* f is undefined: f.id throws
            /\ last' = Response("score", tid, "TypeError")
            /\ UNCHANGED reqs
       ELSE /\ reqs' = [reqs EXCEPT ![s] =
                   [Idle EXCEPT !.kind = "score", !.pc = "updateFixture",
                                !.tid = tid,
                                !.homeScore = homeScore,
                                !.awayScore = awayScore,
                                !.f = <<fixtures[tid][fixtureIndex + 1]>>,
                                !.pos = fixtureIndex + 1,
                                !.live = TRUE]]
            /\ UNCHANGED last
    /\ UNCHANGED <<db, session, page>>

\* UPDATE fixtures ... WHERE id = f.id runs: it changes the row with that
\* id, if the table still has it.
ScoreUpdateFixture(s) ==
    LET rq == reqs[s]
    IN  /\ rq.kind = "score"
        /\ rq.pc = "updateFixture"
        /\ fixtures' = IF rq.live
                       THEN [fixtures EXCEPT ![rq.tid] =
                               UpdateFixture(@, rq.pos, rq.homeScore,
                                             rq.awayScore)]
                       ELSE fixtures
        /\ reqs' = [reqs EXCEPT ![s].pc = "getHome"]
        /\ UNCHANGED <<users, tournaments, tournament_players, standings,
                       session, last, started, page>>

\* The first db.get runs: the home row as the table has it now.
ScoreGetHome(s) ==
    LET rq == reqs[s]
    IN  /\ rq.kind = "score"
        /\ rq.pc = "getHome"
        /\ reqs' = [reqs EXCEPT ![s].pc = "getAway",
                                ![s].home =
                                    GetStanding(standings[rq.tid], rq.f[1].home)]
        /\ UNCHANGED <<db, session, last, started, page>>

\* updateStanding up to its db.run: the statement it issues, with the row
\* it was given.
StandingWrite(row, gf, ga) ==
    [op |-> "updateStanding", row |-> row, gf |-> gf, ga |-> ga]

\* The second db.get runs and its callback issues the two UPDATEs of
\* standings and answers; an undefined row throws in updateStanding.
ScoreGetAway(s) ==
    LET rq == reqs[s]
        away == GetStanding(standings[rq.tid], rq.f[1].away)
        hs == parseInt(rq.homeScore)
        as == parseInt(rq.awayScore)
    IN  /\ rq.kind = "score"
        /\ rq.pc = "getAway"
        /\ IF rq.home = <<>>
           THEN /\ reqs' = [reqs EXCEPT ![s] = Idle]
                /\ last' = Response("score", rq.tid, "TypeError")
           ELSE IF away = <<>>
           THEN /\ reqs' = [reqs EXCEPT ![s].pc = "writes",
                                        ![s].queue =
                                            <<StandingWrite(rq.home[1], hs, as)>>]
                /\ last' = Response("score", rq.tid, "TypeError")
           ELSE /\ reqs' = [reqs EXCEPT ![s].pc = "writes",
                                        ![s].queue =
                                            <<StandingWrite(rq.home[1], hs, as),
                                              StandingWrite(away[1], as, hs)>>]
                /\ last' = Response("score", rq.tid, "redirect:/tournament")
        /\ UNCHANGED <<db, session, started, page>>

\* A statement of the generate handler.
GenerateWrite(op, row) == [op |-> op, row |-> row, gf |-> 0, ga |-> 0]

RECURSIVE LoopStatements(_, _)
\* The inserts the loops issue from i on: for every j after i the two
\* fixtures of the pair, then the standings row of i.
LoopStatements(players, i) ==
    IF i > Len(players) THEN <<>>
    ELSE [k \in 1..Len(InnerLoop(players, i, i + 1)) |->
             GenerateWrite("insertFixture",
                           NewFixture(InnerLoop(players, i, i + 1)[k]))]
         \o <<GenerateWrite("insertStanding", NewStanding(players[i]))>>
         \o LoopStatements(players, i + 1)

\* What the generate callback issues: the two DELETEs, then the inserts.
GenerateStatements(players) ==
    <<GenerateWrite("deleteFixtures", <<>>),
      GenerateWrite("deleteStandings", <<>>)>>
    \o LoopStatements(players, 1)

\* db.all(SELECT u.username ...) of the generate handler and its callback:
\* it returns on fewer than 2 players, else it issues every write and
\* answers.
GenerateReadPlayers(s, tid) ==
    /\ auth
    /\ started < MaxStarted
    /\ started' = started + 1
    /\ reqs' = IF TooFewPlayers(Players(tid))
               THEN reqs
               ELSE [reqs EXCEPT ![s] =
                       [Idle EXCEPT !.kind = "generate", !.pc = "writes",
                                    !.tid = tid,
                                    !.queue = GenerateStatements(Players(tid))]]
    /\ last' = Response("generate", tid, "redirect:/tournament")
    /\ UNCHANGED <<db, session, page>>

\* What statement w of a request on tournament tid makes of the fixtures.
WriteFixtures(fx, w) ==
    CASE w.op = "deleteFixtures" -> <<>>
      [] w.op = "insertFixture" -> Append(fx, w.row)
      [] OTHER -> fx

\* What statement w makes of the standings.
WriteStandings(st, w) ==
    CASE w.op = "deleteStandings" -> <<>>
      [] w.op = "insertStanding" -> Append(st, w.row)
      [] w.op = "updateStanding" -> updateStanding(st, w.row, w.gf, w.ga)
      [] OTHER -> st

\* The next write a request issued runs.  After DELETE FROM fixtures no row
\* has the id a callback read earlier: AUTOINCREMENT never hands it out
\* again.
RunWrite(s) ==
    LET rq == reqs[s]
        w == Head(rq.queue)
        rest == Tail(rq.queue)
    IN  /\ rq.pc = "writes"
        /\ fixtures' = [fixtures EXCEPT ![rq.tid] = WriteFixtures(@, w)]
        /\ standings' = [standings EXCEPT ![rq.tid] = WriteStandings(@, w)]
        /\ reqs' = [t \in Slots |->
                      IF t = s
                      THEN IF rest = <<>> THEN Idle
                           ELSE [rq EXCEPT !.queue = rest]
                      ELSE IF w.op = "deleteFixtures" /\ reqs[t].tid = rq.tid
                           THEN [reqs[t] EXCEPT !.live = FALSE]
                           ELSE reqs[t]]
        /\ UNCHANGED <<users, tournaments, tournament_players, session, last,
                       started, page>>

\* ORDER BY points DESC, gd DESC: row a may come before row b.
MayPrecede(a, b) ==
    \/ a.points > b.points
    \/ a.points = b.points /\ a.gd >= b.gd

\* The orders the rows can be returned in under ORDER BY points DESC,
\* gd DESC: rows the two keys do not tell apart come in any order.
OrderBy(rows) ==
    {[i \in DOMAIN rows |-> rows[p[i]]] :
        p \in {q \in [DOMAIN rows -> DOMAIN rows] :
                 /\ \A i, j \in DOMAIN rows : q[i] = q[j] => i = j
                 /\ \A i, j \in DOMAIN rows :
                        i < j => MayPrecede(rows[q[i]], rows[q[j]])}}

\* GET /tournament/:id, db.get(SELECT * FROM tournaments WHERE id = ?).
DetailGetTournament(s, tid) ==
    /\ auth
    /\ started < MaxStarted
    /\ started' = started + 1
    /\ reqs' = [reqs EXCEPT ![s] =
           [Idle EXCEPT !.kind = "detail", !.pc = "players", !.tid = tid,
                        !.view = [EmptyView EXCEPT
                                     !.tid = tid,
                                     !.tournament =
                                         SelectSeq(tournaments,
                                                   LAMBDA t : t.id = tid)]]]
    /\ UNCHANGED <<db, session, last, page>>

\* db.all(SELECT u.username ...) of the page.
DetailReadPlayers(s) ==
    LET rq == reqs[s]
    IN  /\ rq.kind = "detail"
        /\ rq.pc = "players"
        /\ reqs' = [reqs EXCEPT ![s].pc = "fixtures",
                                ![s].view.players = Players(rq.tid)]
        /\ UNCHANGED <<db, session, last, started, page>>

\* db.all(SELECT * FROM fixtures ...) of the page.
DetailReadFixtures(s) ==
    LET rq == reqs[s]
    IN  /\ rq.kind = "detail"
        /\ rq.pc = "fixtures"
        /\ reqs' = [reqs EXCEPT ![s].pc = "standings",
                                ![s].view.fixtures = fixtures[rq.tid]]
        /\ UNCHANGED <<db, session, last, started, page>>

\* db.all(SELECT * FROM standings ... ORDER BY ...) of the page, and
\* res.render.
DetailReadStandings(s) ==
    LET rq == reqs[s]
    IN  /\ rq.kind = "detail"
        /\ rq.pc = "standings"
        /\ \E sorted \in OrderBy(standings[rq.tid]) :
               page' = <<[rq.view EXCEPT !.standings = sorted]>>
        /\ reqs' = [reqs EXCEPT ![s] = Idle]
        /\ last' = Response("detail", rq.tid, "render")
        /\ UNCHANGED <<db, session, started>>

\* No request is under way.
Quiet == \A s \in Slots : reqs[s].kind = "idle"

\* A handler that runs to completion starts when no request is under way.
QuietRegister == Quiet /\ RegisterRequest

QuietCreate == Quiet /\ Create(OneTid)

QuietJoinOnce == Quiet /\ JoinOnce(OneTid)

QuietGenerate == Quiet /\ GenerateRequest(OneTid)

ScoreStart ==
    \E s \in FreeSlots, tid \in Existing(OneTid), k \in StepIndexes,
       hs \in StepHomeScores, as \in StepAwayScores :
        ScoreReadFixtures(s, tid, k, hs, as)

GenerateStart ==
    \E s \in FreeSlots, tid \in Existing(OneTid) : GenerateReadPlayers(s, tid)

DetailStart ==
    \E s \in FreeSlots, tid \in Existing(OneTid) : DetailGetTournament(s, tid)

ScoreStep ==
    \E s \in Slots :
        \/ ScoreUpdateFixture(s)
        \/ ScoreGetHome(s)
        \/ ScoreGetAway(s)

WriteStep == \E s \in Slots : RunWrite(s)

DetailStep ==
    \E s \in Slots :
        \/ DetailReadPlayers(s)
        \/ DetailReadFixtures(s)
        \/ DetailReadStandings(s)

\* Users register, create, join once and generate; score requests are
\* taken statement by statement.
NextScores ==
    \/ QuietRegister
    \/ QuietCreate
    \/ QuietJoinOnce
    \/ QuietGenerate
    \/ ScoreStart
    \/ ScoreStep
    \/ WriteStep

SpecScores == Init /\ [][NextScores]_vars

\* The same with generate requests taken statement by statement as well.
NextSteps ==
    \/ QuietRegister
    \/ QuietCreate
    \/ QuietJoinOnce
    \/ QuietGenerate
    \/ GenerateStart
    \/ ScoreStart
    \/ ScoreStep
    \/ WriteStep

SpecSteps == Init /\ [][NextSteps]_vars

\* Score requests and page requests taken statement by statement.
NextPage ==
    \/ QuietRegister
    \/ QuietCreate
    \/ QuietJoinOnce
    \/ QuietGenerate
    \/ ScoreStart
    \/ DetailStart
    \/ ScoreStep
    \/ WriteStep
    \/ DetailStep

SpecPage == Init /\ [][NextPage]_vars

\* ================================================================ claims
\* No two entries of s are equal.
Distinct(s) == \A i, j \in DOMAIN s : s[i] = s[j] => i = j

\* The entries of s.
Range(s) == {s[i] : i \in DOMAIN s}

\* The last request was a generation of tid that got past auth.
Generated(tid) ==
    /\ last.op = "generate"
    /\ last.tid = tid
    /\ last.outcome = "redirect:/tournament"

\* Position (from 1) of the fixture (i at home, j away) for i before j among
\* n participants: two fixtures for every pair that comes before (i, j).
PairPosition(i, j, n) ==
    2 * ((i - 1) * n - ((i * (i - 1)) \div 2) + (j - i - 1)) + 1

\* C1: right after the fixtures of a tournament of n >= 2 distinct names are
\* generated there are exactly n*(n-1) of them, (i, j) then (j, i) for every
\* i before j in participant order, so each unordered pair appears exactly
\* twice, once each way round.
C1_DoubleRoundRobin ==
    \A tid \in TIDs :
        LET p == Players(tid)
            n == Len(p)
            fx == fixtures[tid]
        IN  (Generated(tid) /\ n >= 2 /\ Distinct(p)) =>
                /\ Len(fx) = n * (n - 1)
                /\ \A i, j \in 1..n : i < j =>
                       /\ fx[PairPosition(i, j, n)].home = p[i]
                       /\ fx[PairPosition(i, j, n)].away = p[j]
                       /\ fx[PairPosition(i, j, n) + 1].home = p[j]
                       /\ fx[PairPosition(i, j, n) + 1].away = p[i]
                       /\ Cardinality({k \in DOMAIN fx :
                              {fx[k].home, fx[k].away} = {p[i], p[j]}}) = 2

\* The fixtures of [A, B, C] have just been generated.
C1_Witness ==
    /\ Generated(1)
    /\ Players(1) = <<"A", "B", "C">>
    /\ Len(fixtures[1]) = 6
    /\ fixtures[1][3].home = "A" /\ fixtures[1][3].away = "C"
    /\ fixtures[1][6].home = "C" /\ fixtures[1][6].away = "B"

\* C3: a user is in a tournament's membership at most once, however often
\* the user joined it (the original claim).
C3_JoinIdempotent ==
    \A tid \in TIDs : Distinct(tournament_players[tid])

\* C5: a generation request for a tournament of fewer than 2 participants
\* changes no fixture and no standing row.
C5_TooFewIsNoOp ==
    [][\A tid \in TIDs :
          (/\ last'.op = "generate"
           /\ last'.tid = tid
           /\ Len(Players(tid)) < 2
           /\ Generate(tid)) =>
              (fixtures' = fixtures /\ standings' = standings)]_vars

\* Generation was just asked for a tournament of one participant, which has
\* neither fixtures nor standings.
C5_Witness ==
    /\ last.tid \in TIDs
    /\ Generated(last.tid)
    /\ Len(Players(last.tid)) = 1
    /\ fixtures[last.tid] = <<>>
    /\ standings[last.tid] = <<>>

\* C6: a tournament that has a fixture has at least 2 distinct participants
\* (the original claim).
C6_NoScheduleBelowTwo ==
    \A tid \in TIDs :
        fixtures[tid] # <<>> => Cardinality(Range(Players(tid))) >= 2

\* The three equations of a standings row.
RowInvariant(r) ==
    /\ r.played = r.won + r.drawn + r.lost
    /\ r.gd = r.gf - r.ga
    /\ r.points = r.won * 3 + r.drawn

\* C2: after any sequence of score requests with integer scores >= 0 every
\* standings row has played = won + drawn + lost, gd = gf - ga and
\* points = won*3 + drawn (the original claim).
C2_StandingRowInvariant ==
    \A tid \in TIDs : \A k \in DOMAIN standings[tid] :
        RowInvariant(standings[tid][k])

\* Every counter of row r is zero.
ZeroRow(r) ==
    /\ r.played = 0 /\ r.won = 0 /\ r.drawn = 0 /\ r.lost = 0
    /\ r.gf = 0 /\ r.ga = 0 /\ r.gd = 0 /\ r.points = 0

\* C4: right after a (re)generation every fixture of the tournament is
\* unplayed at 0-0 and the tournament has exactly one standings row per
\* participant, every counter zero, and no other row (the original claim).
C4_RegenerationReplaces ==
    \A tid \in TIDs :
        (Generated(tid) /\ Len(Players(tid)) >= 2) =>
            /\ \A k \in DOMAIN fixtures[tid] :
                   /\ fixtures[tid][k].homeScore = 0
                   /\ fixtures[tid][k].awayScore = 0
                   /\ fixtures[tid][k].played = 0
            /\ \A k \in DOMAIN standings[tid] :
                   /\ ZeroRow(standings[tid][k])
                   /\ standings[tid][k].player \in Range(Players(tid))
            /\ \A p \in Range(Players(tid)) :
                   Cardinality({k \in DOMAIN standings[tid] :
                                   standings[tid][k].player = p}) = 1

\* The score strings of either specification.
AnyScores == ValidScores \cup RawScores

\* The string parses as an integer >= 0.
NonNegative(s) == parseInt(s) # NaN /\ parseInt(s) >= 0

\* C7: a score request whose fixtureIndex addresses no fixture of the
\* tournament is answered NotFound and changes no fixture and no standings
\* row (the original claim).
C7_MissingFixtureNotFound ==
    [][\A tid \in TIDs, k \in FixtureIndexes, hs \in AnyScores,
          as \in AnyScores :
          (/\ last'.op = "score"
           /\ last'.tid = tid
           /\ Score(tid, k, hs, as)
           /\ k + 1 \notin DOMAIN fixtures[tid]) =>
              /\ last'.outcome = "NotFound"
              /\ fixtures' = fixtures
              /\ standings' = standings]_vars

\* C8: a score request with a score that does not parse as an integer >= 0
\* is answered Validation and changes no fixture and no standings row (the
\* original claim).
C8_MalformedScoreRejected ==
    [][\A tid \in TIDs, k \in FixtureIndexes, hs \in AnyScores,
          as \in AnyScores :
          (/\ last'.op = "score"
           /\ last'.tid = tid
           /\ Score(tid, k, hs, as)
           /\ k + 1 \in DOMAIN fixtures[tid]
           /\ ~(NonNegative(hs) /\ NonNegative(as))) =>
              /\ last'.outcome = "Validation"
              /\ fixtures' = fixtures
              /\ standings' = standings]_vars

\* The per-side rule on row r for gf goals scored and ga conceded.
SideRule(r, gf, ga) ==
    LET won == r.won + (IF gf > ga THEN 1 ELSE 0)
        drawn == r.drawn + (IF gf = ga THEN 1 ELSE 0)
        lost == r.lost + (IF gf < ga THEN 1 ELSE 0)
    IN  [player |-> r.player, played |-> r.played + 1,
         won |-> won, drawn |-> drawn, lost |-> lost,
         gf |-> r.gf + gf, ga |-> r.ga + ga,
         gd |-> (r.gf + gf) - (r.ga + ga), points |-> won * 3 + drawn]

\* C9: recording hs-as for fixture (h, a) turns h's row into the per-side
\* rule's result for (hs, as) and a's row into its result for (as, hs) (the
\* original claim).
C9_PerSideRule ==
    [][\A tid \in TIDs, k \in FixtureIndexes, hs \in ValidScores,
          as \in ValidScores :
          (/\ last'.op = "score"
           /\ last'.tid = tid
           /\ Score(tid, k, hs, as)
           /\ k + 1 \in DOMAIN fixtures[tid]) =>
              LET f == fixtures[tid][k + 1]
              IN  \A i \in DOMAIN standings[tid] :
                      LET r == standings[tid][i]
                          new == standings'[tid][i]
                      IN  /\ r.player = f.home =>
                                 new = SideRule(r, parseInt(hs), parseInt(as))
                          /\ r.player = f.away =>
                                 new = SideRule(r, parseInt(as), parseInt(hs))]_vars

\* C10: recording a result for a fixture already marked played overwrites
\* the fixture's scores and counts the result again: every row of its two
\* participants gets played + 1 and one more of won, drawn, lost, and, the
\* two being different, gf and ga grow by the new scores.
C10_ReplayIsReapplied ==
    [][\A tid \in TIDs, k \in FixtureIndexes, hs \in ValidScores,
          as \in ValidScores :
          (/\ last'.op = "score"
           /\ last'.tid = tid
           /\ k + 1 \in DOMAIN fixtures[tid]
           /\ fixtures[tid][k + 1].played = 1
           /\ Score(tid, k, hs, as)) =>
              LET f == fixtures[tid][k + 1]
              IN  /\ fixtures'[tid][k + 1].homeScore = parseInt(hs)
                  /\ fixtures'[tid][k + 1].awayScore = parseInt(as)
                  /\ fixtures'[tid][k + 1].played = 1
                  /\ \A i \in DOMAIN standings[tid] :
                       LET r == standings[tid][i]
                           new == standings'[tid][i]
                       IN  /\ r.player \in {f.home, f.away} =>
                                 /\ new.played = r.played + 1
                                 /\ new.won + new.drawn + new.lost =
                                        r.won + r.drawn + r.lost + 1
                           /\ (f.home # f.away /\ r.player = f.home) =>
                                 new = SideRule(r, parseInt(hs), parseInt(as))
                           /\ (f.home # f.away /\ r.player = f.away) =>
                                 new = SideRule(r, parseInt(as), parseInt(hs))]_vars

\* The fixtures of tournament tid that player p is in.
FixturesOf(tid, p) ==
    {k \in DOMAIN fixtures[tid] :
        fixtures[tid][k].home = p \/ fixtures[tid][k].away = p}

\* A result was just recorded, and a row of two different participants'
\* tournament counts more matches played than its participant has fixtures.
C10_Witness ==
    /\ last.op = "score"
    /\ last.outcome = "redirect:/tournament"
    /\ \E tid \in TIDs :
          /\ Distinct(Players(tid))
          /\ \E i \in DOMAIN standings[tid] :
                standings[tid][i].played >
                    Cardinality(FixturesOf(tid, standings[tid][i].player))

\* The standings row of player p in tournament tid, where it has one.
RowOf(tid, p) == GetStanding(standings[tid], p)[1]

\* C11: score requests that read a participant's row before either wrote it
\* lose an update: when an UPDATE of standings runs, the row's played, won,
\* drawn and lost become those of the copy its request read plus its own
\* result, whatever other requests have written to the row since, so that
\* two requests that both read the row end with played increased by 1.
C11_LostUpdate ==
    [][\A s \in Slots :
          (/\ reqs[s].kind = "score"
           /\ reqs[s].pc = "writes"
           /\ RunWrite(s)) =>
              LET w == Head(reqs[s].queue)
                  tid == reqs[s].tid
              IN  \A i \in DOMAIN standings[tid] :
                      standings[tid][i].player = w.row.player =>
                          /\ standings'[tid][i].played = w.row.played + 1
                          /\ standings'[tid][i].won + standings'[tid][i].drawn
                                 + standings'[tid][i].lost
                                 = w.row.won + w.row.drawn + w.row.lost + 1]_vars

\* Both requests are complete: the results of (A, B) and (A, C) are
\* recorded, B and C have played once each and A has played once, not
\* twice, with one win.
C11_Witness ==
    /\ Quiet
    /\ Players(1) = <<"A", "B", "C">>
    /\ Len(fixtures[1]) = 6
    /\ fixtures[1][1].played = 1
    /\ fixtures[1][3].played = 1
    /\ \A k \in {2, 4, 5, 6} : fixtures[1][k].played = 0
    /\ RowOf(1, "B").played = 1
    /\ RowOf(1, "C").played = 1
    /\ RowOf(1, "A").played = 1
    /\ RowOf(1, "A").won = 1

\* C12: registering a username that is taken is answered with the Conflict
\* redirect (/register?error=Username taken), leaves table users as it was
\* (the account's id, email and password hash included), adds no user, and
\* leaves the requester's session as it was.
C12_DuplicateUsernameConflict ==
    [][\A u \in Usernames, e \in AccountEmails, p \in Passwords :
          (/\ last'.op = "register"
           /\ \E i \in 1..Len(users) : users[i].username = u
           /\ Register(u, e, p)) =>
              /\ last'.outcome = "redirect:/register?error"
              /\ users' = users
              /\ Len(users') = Len(users)
              /\ session' = session]_vars

\* A browser without a session was just refused a taken username: it still
\* has none, and the one account is as it was registered.
C12_Witness ==
    /\ last.op = "register"
    /\ last.outcome = "redirect:/register?error"
    /\ session = 0
    /\ Len(users) = 1
    /\ users[1].email = "e"

\* C13: in every state of interleaved score requests, between their
\* statements and after them, every standings row has
\* played = won + drawn + lost, gd = gf - ga and points = won*3 + drawn (the
\* original claim).
C13_RowInvariantInterleaved ==
    \A tid \in TIDs : \A r \in Range(standings[tid]) : RowInvariant(r)

\* The played fixtures of fx that player p is in.
PlayedOf(fx, p) ==
    {k \in DOMAIN fx : fx[k].played = 1 /\ p \in {fx[k].home, fx[k].away}}

\* The standings st include every result that the fixtures fx show as
\* played: each side of a played fixture has a row that counts at least as
\* many matches as the side has played fixtures.
ResultsIncluded(fx, st) ==
    \A k \in DOMAIN fx :
        fx[k].played = 1 =>
            \A p \in {fx[k].home, fx[k].away} :
                \E i \in DOMAIN st :
                    /\ st[i].player = p
                    /\ st[i].played >= Cardinality(PlayedOf(fx, p))

\* The caller of a score request has its response.
ScoreAnswered(tid) ==
    /\ last.op = "score"
    /\ last.tid = tid
    /\ last.outcome = "redirect:/tournament"

\* C14: a score update is atomic for its observers: when the caller has the
\* response, and on every tournament page rendered, the standings include
\* the result of every fixture shown as played (the original claim).
C14_ScoreAtomic ==
    /\ \A tid \in TIDs :
           ScoreAnswered(tid) => ResultsIncluded(fixtures[tid], standings[tid])
    /\ \A i \in DOMAIN page :
           ResultsIncluded(page[i].fixtures, page[i].standings)

\* C15: a score update or a generation on tournament tid leaves the
\* fixtures and standings of every other tournament as they were, and a
\* score update changes, in its own tournament, at most the fixture it
\* addresses and the standings rows of that fixture's home and away
\* participants.
C15_TournamentIsolation ==
    [][/\ \A tid \in TIDs :
            (/\ last'.op \in {"generate", "score"}
             /\ last'.tid = tid
             /\ last' # last \/ fixtures' # fixtures \/ standings' # standings)
                => \A other \in TIDs \ {tid} :
                       /\ fixtures'[other] = fixtures[other]
                       /\ standings'[other] = standings[other]
       /\ \A tid \in TIDs, k \in StepIndexes, hs \in StepHomeScores,
             as \in StepAwayScores :
            (/\ last'.op = "score"
             /\ last'.tid = tid
             /\ Score(tid, k, hs, as)) =>
                /\ DOMAIN fixtures'[tid] = DOMAIN fixtures[tid]
                /\ DOMAIN standings'[tid] = DOMAIN standings[tid]
                /\ \A j \in DOMAIN fixtures[tid] :
                       j # k + 1 => fixtures'[tid][j] = fixtures[tid][j]
                /\ \A i \in DOMAIN standings[tid] :
                       (/\ k + 1 \in DOMAIN fixtures[tid]
                        /\ standings[tid][i].player \notin
                               {fixtures[tid][k + 1].home,
                                fixtures[tid][k + 1].away})
                           => standings'[tid][i] = standings[tid][i]]_vars

\* A result was just recorded in tournament 1 while tournament 2, with the
\* same three participants and generated, has no played fixture and zero
\* rows; C's row of tournament 1, who is not in the fixture, is zero too.
C15_Witness ==
    /\ ScoreAnswered(1)
    /\ Players(1) = <<"A", "B", "C">>
    /\ Range(Players(2)) = {"A", "B", "C"}
    /\ Len(fixtures[1]) = 6
    /\ Len(fixtures[2]) = 6
    /\ fixtures[1][1].played = 1
    /\ RowOf(1, "A").played = 1
    /\ ZeroRow(RowOf(1, "C"))
    /\ \A k \in DOMAIN fixtures[2] : fixtures[2][k].played = 0
    /\ \A i \in DOMAIN standings[2] : ZeroRow(standings[2][i])

\* C16: when a regeneration and a score update of a tournament have both
\* completed, in whatever order their statements ran, a tournament without
\* a fixture marked played has standings rows whose counters are all zero
\* (the original claim).
C16_ConsistentAfterRegeneration ==
    \A tid \in TIDs :
        (/\ Quiet
         /\ \A k \in DOMAIN fixtures[tid] : fixtures[tid][k].played = 0)
            => \A i \in DOMAIN standings[tid] : ZeroRow(standings[tid][i])

\* The rows of tournament tid's standings for player p.
RowsOf(tid, p) == {i \in DOMAIN standings[tid] : standings[tid][i].player = p}

\* C17: every fixture has a home participant different from its away
\* participant, and each of the two has exactly one standings row in the
\* fixture's tournament (the original claim).
C17_NoSelfPlayOneRow ==
    \A tid \in TIDs : \A k \in DOMAIN fixtures[tid] :
        /\ fixtures[tid][k].home # fixtures[tid][k].away
        /\ Cardinality(RowsOf(tid, fixtures[tid][k].home)) = 1
        /\ Cardinality(RowsOf(tid, fixtures[tid][k].away)) = 1

RECURSIVE Total(_)
\* The sum of a sequence of numbers.
Total(ns) == IF ns = <<>> THEN 0 ELSE Head(ns) + Total(Tail(ns))

\* The goals that the played fixtures of fx give player p: those of p's
\* side when own, those of the other side otherwise.
Goals(fx, p, own) ==
    Total([k \in DOMAIN fx |->
             IF fx[k].played # 1 THEN 0
             ELSE (IF fx[k].home = p
                   THEN (IF own THEN fx[k].homeScore ELSE fx[k].awayScore)
                   ELSE 0)
                + (IF fx[k].away = p
                   THEN (IF own THEN fx[k].awayScore ELSE fx[k].homeScore)
                   ELSE 0)])

\* The played fixtures of fx in which p's side made more goals than the
\* other side (sign 1), as many (sign 0), or fewer (sign -1).
Outcomes(fx, p, sign) ==
    {k \in PlayedOf(fx, p) :
        \/ /\ fx[k].home = p
           /\ CASE sign = 1 -> fx[k].homeScore > fx[k].awayScore
                [] sign = 0 -> fx[k].homeScore = fx[k].awayScore
                [] OTHER -> fx[k].homeScore < fx[k].awayScore
        \/ /\ fx[k].away = p
           /\ CASE sign = 1 -> fx[k].awayScore > fx[k].homeScore
                [] sign = 0 -> fx[k].awayScore = fx[k].homeScore
                [] OTHER -> fx[k].awayScore < fx[k].homeScore}

\* The standings of tournament tid are what its fixture table gives.
Recomputed(tid) ==
    \A i \in DOMAIN standings[tid] :
        LET r == standings[tid][i]
            fx == fixtures[tid]
        IN  /\ r.played = Cardinality(PlayedOf(fx, r.player))
            /\ r.gf = Goals(fx, r.player, TRUE)
            /\ r.ga = Goals(fx, r.player, FALSE)
            /\ r.won = Cardinality(Outcomes(fx, r.player, 1))
            /\ r.drawn = Cardinality(Outcomes(fx, r.player, 0))
            /\ r.lost = Cardinality(Outcomes(fx, r.player, -1))

\* C18: with every fixture recorded at most once since the generation, the
\* standings are what the fixture table gives: they are right after a
\* generation, and recording a fixture not yet played keeps them so (the
\* original claim).
C18_StandingsFromFixtures ==
    [][/\ \A tid \in TIDs : Generated(tid)' => Recomputed(tid)'
       /\ \A tid \in TIDs, k \in FixtureIndexes, hs \in ValidScores,
             as \in ValidScores :
            (/\ last'.op = "score"
             /\ last'.tid = tid
             /\ k + 1 \in DOMAIN fixtures[tid]
             /\ fixtures[tid][k + 1].played = 0
             /\ Recomputed(tid)
             /\ Score(tid, k, hs, as)) => Recomputed(tid)']_vars

\* The sum of column c over the standings rows of tournament tid.
ColumnSum(tid, c) == Total([i \in DOMAIN standings[tid] |-> standings[tid][i][c]])

\* C19: the standings of every tournament are balanced: the sums of gf and
\* ga are equal, the sum of gd is 0, the sums of won and lost are equal; and
\* the sum of played is twice the number of results recorded since the last
\* generation: a generation makes it 0 and every result recorded adds 2
\* (the original claim).
C19_BalancedStandings ==
    [][\A tid \in TIDs :
          /\ ColumnSum(tid, "gf")' = ColumnSum(tid, "ga")'
          /\ ColumnSum(tid, "gd")' = 0
          /\ ColumnSum(tid, "won")' = ColumnSum(tid, "lost")'
          /\ (Generated(tid)' /\ ~TooFewPlayers(Players(tid)))
                => ColumnSum(tid, "played")' = 0
          /\ (ScoreAnswered(tid)' /\ standings' # standings)
                => ColumnSum(tid, "played")' = ColumnSum(tid, "played") + 2]_vars

====
